---- MODULE Spec2Model ----
(***************************************************************************)
(* Model of LifeBoard (src/life.py): a dict of row number -> set of live   *)
(* columns, with resize_board and compute_next_generation.                 *)
(*                                                                         *)
(* The dict is modelled as d (key -> object identity) together with heap   *)
(* (object identity -> set of columns), because the row shifts of          *)
(* resize_board copy references, not sets.  A raised KeyError leaves the   *)
(* board as it was at the raise and ends the program (pc = "raised").      *)
(***************************************************************************)
EXTENDS Integers, Sequences, FiniteSets, TLC

\* The board: d, heap, height, min_max.  pc is "ok" or "raised".
\* History kept for the properties: deltas (the delta list of the last
\* compute_next_generation), last (the last call), gen (the number of
\* generations computed), cells0/height0 (the board as constructed) and prev
\* (the board the last call started from); value_errors counts the
\* "value error" reports of the last call (life.py:155-156).
\* The menu: files is the file system (path -> content), delay_set tells
\* whether menu's local delay is bound.  History of the menu: call (the inputs
\* and the effects of the last menu choice) and saved (path -> the board that
\* choice 6 wrote there).
VARIABLES d, heap, height, min_max, pc, deltas, last, gen, cells0, height0, prev,
          value_errors, files, delay_set, call, saved

vars == <<d, heap, height, min_max, pc, deltas, last, gen, cells0, height0, prev,
          value_errors, files, delay_set, call, saved>>

\* the state of menu() besides its board
menuvars == <<files, delay_set, call, saved>>

\* bounds of the model: constructed boards have at most MaxHeight rows, live
\* columns in 0..MaxCol and at most MaxCells live cells; at most MaxGen
\* generations are computed
MaxHeight == 5
MaxCol == 2
MaxCells == 3
MaxGen == 2

\* bounds of the boards that hold one block: at most MaxBlockHeight rows, the
\* block's left column in -MaxBlockCol..MaxBlockCol
MaxBlockHeight == 9
MaxBlockCol == 3

\* bounds of the mappings held by files: row keys in 0..MaxFileRows-1, live
\* columns in 0..MaxFileCol, at most MaxFileCells live cells
MaxFileRows == 3
MaxFileCol == 1
MaxFileCells == 3

\* bound of the start board: menu() without a file argument builds
\* LifeBoard(start_height = BOARD_START_SIZE), BOARD_START_SIZE = 100 rows
\* without a live cell (life.py:24, 215); the model builds StartSize such rows
StartSize == 4

\* bound of the boards whose live cells lie EDGE_BUF_SIZE + 1 rows from both
\* edges: at most MaxInnerHeight rows
MaxInnerHeight == 8

\* life.py:28
EDGE_BUF_SIZE == 2

\* life.py:57 int(sys.float_info.max): Python integers are unbounded; the
\* model uses a value above every row and column index it can reach.
FLOAT_MAX == 1000000

Max(S) == CHOOSE x \in S : \A y \in S : y <= x
Min(S) == CHOOSE x \in S : \A y \in S : x <= y

----------------------------------------------------------------------------
\* dict and set primitives on a board record
\*   s = [d, heap, height, min_max, deltas, err, value_errors]
\* (deltas is the local delta list of compute_next_generation, err is set
\* once a KeyError has been raised, value_errors counts the KeyErrors caught
\* while the deltas are applied)

HasKey(s, k) == k \in DOMAIN s.d

\* self[k] (the set stored under k; only used when HasKey(s, k))
Row(s, k) == s.heap[s.d[k]]

\* self[k] = <the object id>
SetItem(s, k, id) == [s EXCEPT !.d = (k :> id) @@ @]

\* self[k] = set()
NewSet(s, k) ==
    LET id == CHOOSE i \in 0..Cardinality(DOMAIN s.heap) : i \notin DOMAIN s.heap
    IN  [s EXCEPT !.heap = (id :> {}) @@ @, !.d = (k :> id) @@ @]

\* self.pop(k) (only used when HasKey(s, k))
Pop(s, k) == [s EXCEPT !.d = [x \in (DOMAIN s.d) \ {k} |-> s.d[x]]]

Raise(s) == [s EXCEPT !.err = TRUE]

\* any(self[k] for k in ks): "yes", "no", or "raise" on a missing key
RECURSIVE AnyRow(_, _, _)
AnyRow(s, ks, i) ==
    IF i > Len(ks) THEN "no"
    ELSE IF ~HasKey(s, ks[i]) THEN "raise"
    ELSE IF Row(s, ks[i]) # {} THEN "yes"
    ELSE AnyRow(s, ks, i + 1)

----------------------------------------------------------------------------
\* resize_board

\* ShiftUp that starts one row lower: range(self.height - 1, 0, -1)
RECURSIVE ShiftUpShort(_, _)
ShiftUpShort(s, row_num) ==
    IF row_num <= 1 THEN s
    ELSE IF ~HasKey(s, row_num - 2) THEN Raise(s)
    ELSE ShiftUpShort(SetItem(s, row_num - 1, s.d[row_num - 2]), row_num - 1)

\* for row_num in range(self.height, 0, -1): self[row_num] = self[row_num - 1]
RECURSIVE ShiftUp(_, _)
ShiftUp(s, row_num) ==
    IF row_num <= 0 THEN s
    ELSE IF ~HasKey(s, row_num - 1) THEN Raise(s)
    ELSE ShiftUp(SetItem(s, row_num, s.d[row_num - 1]), row_num - 1)

RECURSIVE ExpandTop(_)
ExpandTop(s) ==
    IF s.err THEN s
    ELSE LET a == AnyRow(s, [n \in 1..EDGE_BUF_SIZE |-> n - 1], 1)
         IN  IF a = "raise" THEN Raise(s)
             ELSE IF a = "no" THEN s
             ELSE LET t == ShiftUp(s, s.height)
                  IN  IF t.err THEN t
                      ELSE ExpandTop([NewSet(t, 0) EXCEPT !.height = @ + 1])

RECURSIVE ExpandBottom(_)
ExpandBottom(s) ==
    IF s.err THEN s
    ELSE LET a == AnyRow(s, [n \in 1..EDGE_BUF_SIZE |-> s.height - n], 1)
         IN  IF a = "raise" THEN Raise(s)
             ELSE IF a = "no" THEN s
             ELSE ExpandBottom([NewSet(s, s.height) EXCEPT !.height = @ + 1])

\* for row_num in range(1, self.height): self[row_num - 1] = self[row_num]
RECURSIVE ShiftDown(_, _)
ShiftDown(s, row_num) ==
    IF row_num >= s.height THEN s
    ELSE IF ~HasKey(s, row_num) THEN Raise(s)
    ELSE ShiftDown(SetItem(s, row_num - 1, s.d[row_num]), row_num + 1)

\* ShrinkTop testing the row one below the row just inside the buffer
RECURSIVE ShrinkTopBelow(_)
ShrinkTopBelow(s) ==
    IF s.err THEN s
    ELSE IF ~HasKey(s, EDGE_BUF_SIZE + 1) THEN Raise(s)
    ELSE IF Row(s, EDGE_BUF_SIZE + 1) # {} THEN s
    ELSE IF ~HasKey(s, 0) THEN Raise(s)
    ELSE LET t == ShiftDown(Pop(s, 0), 1)
         IN  IF t.err THEN t
             ELSE ShrinkTopBelow([t EXCEPT !.height = @ - 1])

\* while not self[EDGE_BUF_SIZE]: self.pop(0); shift the rows down; height -= 1
RECURSIVE ShrinkTop(_)
ShrinkTop(s) ==
    IF s.err THEN s
    ELSE IF ~HasKey(s, EDGE_BUF_SIZE) THEN Raise(s)
    ELSE IF Row(s, EDGE_BUF_SIZE) # {} THEN s
    ELSE IF ~HasKey(s, 0) THEN Raise(s)
    ELSE LET t == ShiftDown(Pop(s, 0), 1)
         IN  IF t.err THEN t
             ELSE ShrinkTop([t EXCEPT !.height = @ - 1])

RECURSIVE ShrinkBottom(_)
ShrinkBottom(s) ==
    IF s.err THEN s
    ELSE IF ~HasKey(s, s.height - EDGE_BUF_SIZE + 1) THEN Raise(s)
    ELSE IF Row(s, s.height - EDGE_BUF_SIZE + 1) # {} THEN s
    ELSE IF ~HasKey(s, s.height - 1) THEN Raise(s)
    ELSE ShrinkBottom([Pop(s, s.height - 1) EXCEPT !.height = @ - 1])

\* resize_board that shrinks first and expands afterwards
resize_boardShrinkFirst(s) == ExpandBottom(ExpandTop(ShrinkBottom(ShrinkTop(s))))

resize_board(s) == ShrinkBottom(ShrinkTop(ExpandBottom(ExpandTop(s))))

----------------------------------------------------------------------------
\* compute_next_generation

In(s, k, c) == IF c \in Row(s, k) THEN 1 ELSE 0

neighbor_ct(s, row_num, cell) ==
      In(s, row_num - 1, cell - 1) + In(s, row_num - 1, cell) + In(s, row_num - 1, cell + 1)
    + In(s, row_num, cell - 1) + In(s, row_num, cell + 1)
    + In(s, row_num + 1, cell - 1) + In(s, row_num + 1, cell) + In(s, row_num + 1, cell + 1)

\* CellDelta with a live cell surviving on 2 neighbours only
CellDeltaTwoOnly(s, row_num, cell) ==
    LET n == neighbor_ct(s, row_num, cell)
    IN  IF cell \notin Row(s, row_num) /\ n = 3 THEN << <<row_num, cell, TRUE>> >>
        ELSE IF cell \in Row(s, row_num) /\ n # 2 THEN << <<row_num, cell, FALSE>> >>
        ELSE << >>

\* the deltas one cell contributes: a birth, a death, or nothing
CellDelta(s, row_num, cell) ==
    LET n == neighbor_ct(s, row_num, cell)
    IN  IF cell \notin Row(s, row_num) /\ n = 3 THEN << <<row_num, cell, TRUE>> >>
        ELSE IF cell \in Row(s, row_num) /\ n \notin {2, 3} THEN << <<row_num, cell, FALSE>> >>
        ELSE << >>

\* one iteration of "for delta in deltas": add or remove in the set object
\* stored under the row (a failed remove is caught and reported), then the
\* two bound updates
ApplyDelta(s, delta) ==
    LET id == s.d[delta[1]]
        t  == IF delta[3]
              THEN [s EXCEPT !.heap[id] = @ \cup {delta[2]}]
              ELSE IF delta[2] \in s.heap[id]
              THEN [s EXCEPT !.heap[id] = @ \ {delta[2]}]
              ELSE [s EXCEPT !.value_errors = @ + 1]
        mx == IF delta[1] < t.min_max.max THEN delta[1] ELSE t.min_max.max
        mn == IF delta[2] > t.min_max.min THEN delta[2] ELSE t.min_max.min
    IN  [t EXCEPT !.min_max = [max |-> mx, min |-> mn]]

\* for delta in deltas
RECURSIVE ApplyDeltas(_, _)
ApplyDeltas(s, i) ==
    IF i > Len(s.deltas) THEN s ELSE ApplyDeltas(ApplyDelta(s, s.deltas[i]), i + 1)

\* ScanCells reading a board to which the deltas found so far are applied
RECURSIVE ScanCellsInterleaved(_, _, _, _)
ScanCellsInterleaved(s, row_num, cell, acc) ==
    IF cell >= s.min_max.min + 2 THEN acc
    ELSE ScanCellsInterleaved(s, row_num, cell + 1,
             acc \o CellDelta(ApplyDeltas([s EXCEPT !.deltas = acc], 1), row_num, cell))

\* ScanCells stopping one column early
RECURSIVE ScanCellsNarrow(_, _, _, _)
ScanCellsNarrow(s, row_num, cell, acc) ==
    IF cell >= s.min_max.min + 1 THEN acc
    ELSE ScanCellsNarrow(s, row_num, cell + 1, acc \o CellDelta(s, row_num, cell))

\* for cell in range(self.min_max["max"] - 1, self.min_max["min"] + 2)
RECURSIVE ScanCells(_, _, _, _)
ScanCells(s, row_num, cell, acc) ==
    IF cell >= s.min_max.min + 2 THEN acc
    ELSE ScanCells(s, row_num, cell + 1, acc \o CellDelta(s, row_num, cell))

\* for row_num in range(1, self.height - 1); a row whose neighbours are not
\* keys of the dict raises KeyError at its first cell
RECURSIVE ScanRows(_, _, _)
ScanRows(s, row_num, acc) ==
    IF row_num >= s.height - 1 THEN [s EXCEPT !.deltas = acc]
    ELSE IF s.min_max.max - 1 >= s.min_max.min + 2 THEN ScanRows(s, row_num + 1, acc)
    ELSE IF ~({row_num - 1, row_num, row_num + 1} \subseteq DOMAIN s.d)
         THEN [s EXCEPT !.deltas = acc, !.err = TRUE]
    ELSE ScanRows(s, row_num + 1, ScanCells(s, row_num, s.min_max.max - 1, acc))

compute_next_generation(s) ==
    LET scan == ScanRows(s, 1, << >>)
    IN  IF scan.err THEN scan ELSE resize_board(ApplyDeltas(scan, 1))

----------------------------------------------------------------------------
\* LifeBoard.__init__: the rows of the mapping (start_height empty rows, or
\* the unpickled mapping), height counted from the rows, bounds scanned from
\* the live cells

InitMinMax(cells) ==
    LET cols == {p[2] : p \in cells}
    IN  [max |-> IF cols = {} THEN FLOAT_MAX ELSE Min(cols),
         min |-> IF cols = {} THEN -1 * FLOAT_MAX ELSE Max(cols)]

RECURSIVE UpTo(_, _)
UpTo(S, k) ==
    IF k = 0 THEN {{}}
    ELSE LET T == UpTo(S, k - 1) IN T \cup {t \cup {x} : t \in T, x \in S}

\* the mappings a board is constructed from: h rows, at most MaxCells live cells
Boards(h) == UpTo((0..(h - 1)) \X (0..MaxCol), MaxCells)

\* object identities are renamed to the least key that holds the object
\* (identity is observable only through sharing)
Canon(s) ==
    LET name(k) == Min({j \in DOMAIN s.d : s.d[j] = s.d[k]})
        ids == {name(k) : k \in DOMAIN s.d}
    IN  [s EXCEPT !.d = [k \in DOMAIN s.d |-> name(k)],
                  !.heap = [i \in ids |-> s.heap[s.d[i]]]]

Self == [d |-> d, heap |-> heap, height |-> height, min_max |-> min_max,
         deltas |-> deltas, err |-> FALSE, value_errors |-> 0]

LiveOf(s) ==
    UNION {{<<r, c>> : c \in Row(s, r)} : r \in (0..(s.height - 1)) \cap DOMAIN s.d}

LiveCells == LiveOf(Self)

Snapshot == [cells |-> LiveCells, height |-> height, min_max |-> min_max, keys |-> DOMAIN d]

NoFiles == [p \in {} |-> 0]

NoCall == [f_name |-> "", existed |-> FALSE, constructed |-> FALSE, num_gens |-> -1,
           disp |-> "", computes |-> 0, redraws |-> 0]

\* a LifeBoard used without menu(): no file, no menu call
NoMenu ==
    /\ files = NoFiles
    /\ delay_set = FALSE
    /\ call = NoCall
    /\ saved = NoFiles

Construct(h, cells) ==
    /\ d = [r \in 0..(h - 1) |-> r]
    /\ heap = [r \in 0..(h - 1) |-> {p[2] : p \in {q \in cells : q[1] = r}}]
    /\ height = h
    /\ min_max = InitMinMax(cells)
    /\ pc = "ok"
    /\ deltas = << >>
    /\ last = "init"
    /\ gen = 0
    /\ cells0 = cells
    /\ height0 = h
    /\ prev = [cells |-> cells, height |-> h, min_max |-> InitMinMax(cells),
               keys |-> 0..(h - 1)]
    /\ value_errors = 0
    /\ NoMenu

Init == \E h \in 0..MaxHeight : \E cells \in Boards(h) : Construct(h, cells)

Store(s) ==
    \E c \in {Canon(s)} :
        /\ d' = c.d
        /\ heap' = c.heap
        /\ height' = c.height
        /\ min_max' = c.min_max
        /\ deltas' = c.deltas
        /\ pc' = IF c.err THEN "raised" ELSE "ok"
        /\ value_errors' = c.value_errors

ComputeNextGeneration ==
    /\ pc = "ok"
    /\ gen < MaxGen
    /\ \E r \in {compute_next_generation(Self)} : Store(r)
    /\ last' = "compute_next_generation"
    /\ gen' = gen + 1
    /\ prev' = Snapshot
    /\ UNCHANGED <<cells0, height0>>
    /\ UNCHANGED menuvars

ResizeBoard ==
    /\ pc = "ok"
    /\ \E r \in {resize_board(Self)} : Store(r)
    /\ last' = "resize_board"
    /\ prev' = Snapshot
    /\ UNCHANGED <<gen, cells0, height0>>
    /\ UNCHANGED menuvars

Next == ComputeNextGeneration \/ ResizeBoard

Spec == Init /\ [][Next]_vars

\* the runs that only compute generations (the menu's choices 4 and 5)
SpecGen == Init /\ [][ComputeNextGeneration]_vars

\* boards that hold one 2x2 block inside the buffered row range
Block(r0, c0) == {<<r0, c0>>, <<r0, c0 + 1>>, <<r0 + 1, c0>>, <<r0 + 1, c0 + 1>>}

InitBlock ==
    \E h \in (2 * EDGE_BUF_SIZE + 2)..MaxBlockHeight :
        \E r0 \in EDGE_BUF_SIZE..(h - EDGE_BUF_SIZE - 2) :
            \E c0 \in (-MaxBlockCol)..MaxBlockCol : Construct(h, Block(r0, c0))

SpecBlock == InitBlock /\ [][Next]_vars

\* boards whose live cells lie at least EDGE_BUF_SIZE + 1 rows from both edges
InitInner ==
    \E h \in (2 * EDGE_BUF_SIZE + 3)..MaxInnerHeight :
        \E cells \in UpTo(((EDGE_BUF_SIZE + 1)..(h - EDGE_BUF_SIZE - 2)) \X (0..MaxCol),
                          MaxCells) :
            Construct(h, cells)

SpecInner == InitInner /\ [][Next]_vars

----------------------------------------------------------------------------
\* menu(): the board it holds, the files it loads and saves, fast-forward.
\* A file's content is what pickle wrote: [kind |-> "dict", rows |-> m] is a
\* pickled mapping m (row key -> set of columns), [kind |-> "str", rows |-> m]
\* is a pickled string, the text str(m) of the mapping m.

Paths == {"a", "b"}

\* the mappings with row keys in K
MappingsOn(K) ==
    {[k \in K |-> {p[2] : p \in {q \in cells : q[1] = k}}] :
        cells \in UpTo(K \X (0..MaxFileCol), MaxFileCells)}

\* the mappings a pickled file can hold; the row keys need not be contiguous
FileMappings == UNION {MappingsOn(K) : K \in SUBSET (0..(MaxFileRows - 1))}

\* repr(board): str(dict(self)), the text of every key with its set
Repr(s) == [kind |-> "str", rows |-> [k \in DOMAIN s.d |-> Row(s, k)]]

\* LifeBoard(start_height = h)
StartBoard(h) ==
    [d |-> [r \in 0..(h - 1) |-> r], heap |-> [r \in 0..(h - 1) |-> {}],
     height |-> h, min_max |-> InitMinMax({}), deltas |-> << >>, err |-> FALSE,
     value_errors |-> 0]

\* LifeBoard(source_file = a file with this content): dict(...) of a pickled
\* mapping copies it; dict(...) of a pickled string raises ValueError (the
\* text starts with "{", an element of length 1)
FileBoard(content) ==
    LET m == content.rows
    IN  IF content.kind = "str" THEN Raise(StartBoard(0))
        ELSE [d |-> [k \in DOMAIN m |-> k], heap |-> m,
              height |-> Cardinality(DOMAIN m),
              min_max |-> InitMinMax(UNION {{<<k, c>> : c \in m[k]} : k \in DOMAIN m}),
              deltas |-> << >>, err |-> FALSE, value_errors |-> 0]

\* print(board) raises KeyError when __str__ reads a row that is no key
StrRaises(s) ==
    /\ s.min_max.max - EDGE_BUF_SIZE < s.min_max.min + EDGE_BUF_SIZE
    /\ ~((0..(s.height - 1)) \subseteq DOMAIN s.d)

\* redraw_screen(screen, board): "none" (an empty dict is not printed),
\* "printed" or "raise"
redraw_screen(s) ==
    IF DOMAIN s.d = {} THEN "none"
    ELSE IF StrRaises(s) THEN "raise"
    ELSE "printed"

\* Python's a % b for a >= 0 and b # 0
PyMod(a, b) == IF b > 0 THEN a % b ELSE -1 * ((-1 * a) % (-1 * b))

\* the board variable of menu() is bound to a new board
Rebind(s) ==
    /\ Store(s)
    /\ cells0' = LiveOf(s)
    /\ height0' = s.height
    /\ gen' = 0

\* menu() starts: argv names the file "a" or no file; the file "a" exists
InitMenu ==
    \E m \in FileMappings, argv \in BOOLEAN :
        \E s \in {IF argv THEN FileBoard([kind |-> "dict", rows |-> m])
                   ELSE StartBoard(StartSize)} :
            /\ d = s.d
            /\ heap = s.heap
            /\ height = s.height
            /\ min_max = s.min_max
            /\ pc = "ok"
            /\ deltas = << >>
            /\ last = "init"
            /\ gen = 0
            /\ cells0 = LiveOf(s)
            /\ height0 = s.height
            /\ prev = [cells |-> LiveOf(s), height |-> s.height, min_max |-> s.min_max,
                       keys |-> DOMAIN s.d]
            /\ value_errors = 0
            /\ files = ("a" :> [kind |-> "dict", rows |-> m])
            /\ delay_set = FALSE
            /\ call = NoCall
            /\ saved = NoFiles

\* choice 1: load board
LoadBoard ==
    /\ pc = "ok"
    /\ \E f_name \in Paths \cup {""} :
          /\ IF f_name # "" /\ f_name \in DOMAIN files
             THEN \E s \in {FileBoard(files[f_name])} :
                    IF s.err
                    THEN /\ pc' = "raised"
                         /\ UNCHANGED <<d, heap, height, min_max, deltas, value_errors,
                                        cells0, height0, gen>>
                    ELSE Rebind(s)
             ELSE UNCHANGED <<d, heap, height, min_max, deltas, value_errors,
                              cells0, height0, gen, pc>>
          /\ call' = [NoCall EXCEPT !.f_name = f_name,
                                    !.existed = f_name \in DOMAIN files,
                                    !.constructed = f_name # "" /\ f_name \in DOMAIN files]
    /\ last' = "load_board"
    /\ prev' = Snapshot
    /\ UNCHANGED <<files, delay_set, saved>>

\* the file system after choice 6 that overwrites an existing file
save_boardOverwriting(fs, f_name, s) ==
    IF f_name # "" THEN (f_name :> Repr(s)) @@ fs ELSE fs

\* the file system after choice 6: pickle.dump(repr(board)) to a new file
save_board(fs, f_name, s) ==
    IF f_name # "" /\ f_name \notin DOMAIN fs THEN (f_name :> Repr(s)) @@ fs ELSE fs

\* choice 6: save board
SaveBoard ==
    /\ pc = "ok"
    /\ \E f_name \in Paths \cup {""} :
          /\ files' = save_board(files, f_name, Self)
          /\ saved' = IF f_name # "" /\ f_name \notin DOMAIN files
                       THEN (f_name :> Snapshot) @@ saved ELSE saved
          /\ call' = [NoCall EXCEPT !.f_name = f_name,
                                    !.existed = f_name \in DOMAIN files]
    /\ last' = "save_board"
    /\ prev' = Snapshot
    /\ UNCHANGED <<d, heap, height, min_max, pc, deltas, value_errors, gen, cells0,
                   height0, delay_set>>

\* the loop of choice 5 from generation g on; r = [s, computes, redraws]
RECURSIVE FastForwardLoop(_, _, _, _, _)
FastForwardLoop(r, g, num_gens, disp, nth) ==
    IF g >= num_gens THEN r
    ELSE LET t == compute_next_generation(r.s)
             c == [r EXCEPT !.s = t, !.computes = @ + 1]
         IN  IF t.err THEN c
             ELSE IF disp # "y" THEN FastForwardLoop(c, g + 1, num_gens, disp, nth)
             ELSE IF nth = 0 THEN [c EXCEPT !.s = Raise(t)]
             ELSE IF PyMod(g, nth) = 0 /\ g # num_gens - 1
             THEN LET w == redraw_screen(t)
                  IN  IF w = "raise" THEN [c EXCEPT !.s = Raise(t)]
                      ELSE FastForwardLoop(
                               [c EXCEPT !.redraws = @ + (IF w = "printed" THEN 1 ELSE 0)],
                               g + 1, num_gens, disp, nth)
             ELSE FastForwardLoop(c, g + 1, num_gens, disp, nth)

\* choice 5 with the answers num_gens (-1: not a number), disp and nth (asked
\* only when disp is "y", together with the delay): the board is drawn, the
\* generations are computed, the board is drawn and time.sleep(delay) reads
\* menu's local delay, which is bound only by an answer "y"
fast_forward(s, num_gens, disp, nth, bound) ==
    LET w0 == redraw_screen(s)
        r0 == [s |-> s, computes |-> 0, redraws |-> IF w0 = "printed" THEN 1 ELSE 0]
    IN  IF w0 = "raise" THEN [r0 EXCEPT !.s = Raise(s)]
        ELSE IF num_gens < 0 THEN r0
        ELSE LET r == FastForwardLoop(r0, 0, num_gens, disp, nth)
                 w == redraw_screen(r.s)
             IN  IF r.s.err THEN r
                 ELSE IF w = "raise" THEN [r EXCEPT !.s = Raise(r.s)]
                 ELSE LET q == [r EXCEPT !.redraws = @ + (IF w = "printed" THEN 1 ELSE 0)]
                      IN  IF disp = "y" \/ bound THEN q ELSE [q EXCEPT !.s = Raise(r.s)]

\* choice 5: fast-forward
FastForward ==
    /\ pc = "ok"
    /\ \E num_gens \in -1..(MaxGen - gen), disp \in {"y", "n"}, nth \in -1..2 :
          /\ disp = "n" => nth = -1
          /\ num_gens < 0 => disp = "n"
          /\ \E r \in {fast_forward(Self, num_gens, disp, nth, delay_set)} :
                /\ Store(r.s)
                /\ gen' = gen + r.computes
                /\ call' = [NoCall EXCEPT !.num_gens = num_gens, !.disp = disp,
                                          !.computes = r.computes, !.redraws = r.redraws]
          /\ delay_set' = (delay_set \/ (num_gens >= 0 /\ disp = "y"))
    /\ last' = "fast_forward"
    /\ prev' = Snapshot
    /\ UNCHANGED <<cells0, height0, files, saved>>

NextMenu == LoadBoard \/ SaveBoard \/ FastForward

SpecMenu == InitMenu /\ [][NextMenu]_vars

\* the runs of menu() that only load and save (choices 1 and 6)
NextFiles == LoadBoard \/ SaveBoard

SpecFiles == InitMenu /\ [][NextFiles]_vars

----------------------------------------------------------------------------
\* Conway's rule on the unbounded grid, the reference of the claims

NeighboursIn(S, p) ==
    Cardinality({q \in S : q # p /\ q[1] - p[1] \in -1..1 /\ q[2] - p[2] \in -1..1})

LifeStep(S) ==
    IF S = {} THEN {}
    ELSE LET rs == {p[1] : p \in S}
             cs == {p[2] : p \in S}
             box == ((Min(rs) - 1)..(Max(rs) + 1)) \X ((Min(cs) - 1)..(Max(cs) + 1))
         IN  {p \in box : \/ p \in S /\ NeighboursIn(S, p) \in {2, 3}
                          \/ p \notin S /\ NeighboursIn(S, p) = 3}

RECURSIVE LifeN(_, _)
LifeN(S, n) == IF n = 0 THEN S ELSE LifeN(LifeStep(S), n - 1)

\* a live-cell set with its rows renumbered from 0
Norm(S) ==
    IF S = {} THEN {}
    ELSE LET m == Min({p[1] : p \in S}) IN {<<p[1] - m, p[2]>> : p \in S}

\* the row stored under key k, empty when k is no key
RowAt(k) == IF k \in DOMAIN d THEN heap[d[k]] ELSE {}

\* top EDGE_BUF_SIZE and bottom EDGE_BUF_SIZE rows of the board hold no cell
Buffered(h, cells) ==
    /\ h >= 2 * EDGE_BUF_SIZE
    /\ \A p \in cells : EDGE_BUF_SIZE <= p[1] /\ p[1] <= h - EDGE_BUF_SIZE - 1

Resized == pc = "ok" /\ last # "init"

----------------------------------------------------------------------------
\* C1: from a well-formed board, after n compute_next_generation calls the
\* live cells are the n-fold Conway step of the constructed board's live
\* cells, up to a uniform renumbering of the rows.
C1_ConwayRefinement ==
    (pc = "ok" /\ Buffered(height0, cells0))
        => Norm(LiveCells) = Norm(LifeN(cells0, gen))

\* C2: after a resize_board that returns, rows height-1 and height-2 are
\* empty, and row height-3 is non-empty when height > 2*EDGE_BUF_SIZE.
C2_BottomBuffer ==
    Resized =>
        /\ \A n \in 1..EDGE_BUF_SIZE : RowAt(height - n) = {}
        /\ height > 2 * EDGE_BUF_SIZE => RowAt(height - EDGE_BUF_SIZE - 1) # {}

\* C3: after a resize_board that returns, rows 0 and 1 exist and are empty,
\* and row 2 is non-empty when height > 2*EDGE_BUF_SIZE.
C3_TopBuffer ==
    Resized =>
        /\ \A n \in 0..(EDGE_BUF_SIZE - 1) : n \in DOMAIN d /\ RowAt(n) = {}
        /\ height > 2 * EDGE_BUF_SIZE => RowAt(EDGE_BUF_SIZE) # {}

\* C3 witness: a generation was computed, the resize returned and left a
\* board of more than 2*EDGE_BUF_SIZE rows with live cells in row 2.
C3_Witness ==
    /\ pc = "ok" /\ last = "compute_next_generation"
    /\ height > 2 * EDGE_BUF_SIZE
    /\ RowAt(EDGE_BUF_SIZE) # {}
    /\ prev.height # height

\* C4: the row keys stored are exactly 0..height-1.
C4_KeysContiguous == pc = "ok" => DOMAIN d = 0..(height - 1)

\* C5: every live column lies between the left bound min_max["max"] and the
\* right bound min_max["min"].
C5_CellsWithinBounds ==
    pc = "ok" => \A p \in LiveCells : min_max.max <= p[2] /\ p[2] <= min_max.min

\* C6: a blinker on a buffered board is back (up to row renumbering) after two
\* compute_next_generation calls.
IsBlinker(cells) ==
    \E r \in {p[1] : p \in cells}, c \in {p[2] : p \in cells} :
        \/ cells = {<<r, c>>, <<r, c + 1>>, <<r, c + 2>>}
        \/ cells = {<<r, c>>, <<r + 1, c>>, <<r + 2, c>>}

C6_BlinkerPeriod2 ==
    (IsBlinker(cells0) /\ Buffered(height0, cells0) /\ gen = 2)
        => pc = "ok" /\ Norm(LiveCells) = Norm(cells0)

\* C7: compute_next_generation on a board whose only live cell lies in a row
\* of [1, height-2] completes and leaves no live cell.
C7_IsolatedCellDies ==
    (/\ last = "compute_next_generation"
     /\ Cardinality(prev.cells) = 1
     /\ \A p \in prev.cells : 1 <= p[1] /\ p[1] <= prev.height - 2)
        => pc = "ok" /\ LiveCells = {}

\* C8: a block inside the buffered row range stays as it is (up to row
\* renumbering) through every compute_next_generation, and no call produces
\* a delta.
C8_BlockStable ==
    (\E r0 \in 0..height0, c0 \in {p[2] : p \in cells0} :
        cells0 = Block(r0, c0) /\ Buffered(height0, cells0))
        => /\ pc = "ok"
           /\ deltas = << >>
           /\ Norm(LiveCells) = Norm(cells0)
           /\ {p[2] : p \in LiveCells} = {p[2] : p \in cells0}

\* C8 witness: two generations of a block board have been computed.
C8_Witness ==
    /\ last = "compute_next_generation" /\ gen = 2 /\ pc = "ok"
    /\ Cardinality(cells0) = 4
    /\ Cardinality(LiveCells) = 4

\* C9: compute_next_generation on a board without rows returns and leaves
\* mapping, height and bounds as they were.
C9_ZeroHeightNoOp ==
    (last = "compute_next_generation" /\ prev.height = 0 /\ prev.keys = {})
        => pc = "ok" /\ Snapshot = prev

\* C10: on a board of positive height, resize_board and
\* compute_next_generation return without raising.
C10_NoRaise ==
    (last # "init" /\ prev.height > 0) => pc = "ok"

\* live cells of a board snapshot lie EDGE_BUF_SIZE + 1 rows from both edges
Inner(b) ==
    \A p \in b.cells :
        EDGE_BUF_SIZE + 1 <= p[1] /\ p[1] <= b.height - EDGE_BUF_SIZE - 2

BirthRows == {deltas[i][1] : i \in {j \in 1..Len(deltas) : deltas[j][3]}}
BirthCols == {deltas[i][2] : i \in {j \in 1..Len(deltas) : deltas[j][3]}}

\* C16: applying the deltas changes the bounds by birth deltas only: the left
\* bound becomes the least of its old value and the birth rows, the right
\* bound the greatest of its old value and the birth columns; a death delta
\* changes neither.
C16_BoundsByBirthsOnly ==
    (last = "compute_next_generation" /\ pc = "ok")
        => /\ min_max.max = Min({prev.min_max.max} \cup BirthRows)
           /\ min_max.min = Max({prev.min_max.min} \cup BirthCols)

\* every row 0..height-1 of a board snapshot is a key of the dict
Keyed(b) == 0..(b.height - 1) \subseteq b.keys

DeltaCell(i) == <<deltas[i][1], deltas[i][2]>>

\* the cells born and the cells that died in the last delta list
Births == {DeltaCell(i) : i \in {j \in 1..Len(deltas) : deltas[j][3]}}
Deaths == {DeltaCell(i) : i \in {j \in 1..Len(deltas) : ~deltas[j][3]}}

\* C14: every delta of a compute_next_generation call is justified by the
\* board as it was at the start of the call (a birth is a dead cell of that
\* board with 3 live neighbours there, a death a live cell of that board with
\* other than 2 or 3 live neighbours there), and the board the call returns
\* is the start board with exactly these deltas applied.
C14_DeltasFromSnapshot ==
    (last = "compute_next_generation" /\ Keyed(prev))
        => /\ \A p \in Births : p \notin prev.cells /\ NeighboursIn(prev.cells, p) = 3
           /\ \A p \in Deaths : p \in prev.cells /\ NeighboursIn(prev.cells, p) \notin {2, 3}
           /\ pc = "ok" => Norm(LiveCells) = Norm((prev.cells \ Deaths) \cup Births)

\* C14 witness: a generation was computed whose delta list holds two deltas
\* of adjacent cells (applying the first before evaluating the second would
\* change the second cell's neighbour count).
C14_Witness ==
    /\ last = "compute_next_generation" /\ pc = "ok" /\ Keyed(prev)
    /\ \E i, j \in 1..Len(deltas) :
          /\ i < j
          /\ deltas[i][1] - deltas[j][1] \in -1..1
          /\ deltas[i][2] - deltas[j][2] \in -1..1

\* the rows and columns one compute_next_generation call evaluates on board b
Window(b) ==
    (1..(b.height - 2)) \X ((b.min_max.max - 1)..(b.min_max.min + 1))

\* C17: the delta list of a compute_next_generation call holds a birth for
\* exactly the dead cells of the window (rows 1..height-2, columns
\* left-1..right+1) with 3 live neighbours, a death for exactly the live cells
\* of the window with other than 2 or 3 live neighbours, nothing else, at most
\* one delta per cell, and no "value error" is reported while it is applied.
C17_DeltaListExact ==
    (last = "compute_next_generation" /\ Keyed(prev))
        => /\ Births = {p \in Window(prev) :
                          p \notin prev.cells /\ NeighboursIn(prev.cells, p) = 3}
           /\ Deaths = {p \in Window(prev) :
                          p \in prev.cells /\ NeighboursIn(prev.cells, p) \notin {2, 3}}
           /\ \A i, j \in 1..Len(deltas) : DeltaCell(i) = DeltaCell(j) => i = j
           /\ value_errors = 0

\* C17 witness: a generation was computed whose delta list holds a death and
\* a birth in the last column of the window.
C17_Witness ==
    /\ last = "compute_next_generation" /\ pc = "ok" /\ Keyed(prev)
    /\ Deaths # {}
    /\ \E p \in Births : p[2] = prev.min_max.min + 1

\* the live cells S with every row number raised by k
Shifted(S, k) == {<<p[1] + k, p[2]>> : p \in S}

\* the row offset between the board before the last call and the board now
RowOffset == Min({p[1] : p \in LiveCells}) - Min({p[1] : p \in prev.cells})

\* C18: resize_board on a board with at least one live cell returns, and the
\* live cells of rows 0..height-1 afterwards are the live cells before moved
\* by one row offset, columns unchanged, none lost or added; the bounds are
\* unchanged.
C18_ResizeRenumbersRows ==
    (last = "resize_board" /\ prev.cells # {})
        => /\ pc = "ok"
           /\ LiveCells # {}
           /\ LiveCells = Shifted(prev.cells, RowOffset)
           /\ min_max = prev.min_max

\* C18 witness: resize_board ran on a board with live cells and moved them
\* to other row numbers, changing the height.
C18_Witness ==
    /\ last = "resize_board" /\ pc = "ok"
    /\ prev.cells # {} /\ LiveCells # {}
    /\ RowOffset # 0
    /\ height # prev.height

\* the row keys of a mapping are 0..n-1
Contiguous(m) == DOMAIN m = 0..(Cardinality(DOMAIN m) - 1)

\* the last menu choice constructed a board from the file call.f_name
Loaded == last = "load_board" /\ call.constructed

\* C12: constructing a board from a pickled mapping whose row keys are not
\* 0..n-1 fails with an error; no board with a missing key below its height
\* comes out of it.
C12_GappedMappingRejected ==
    (Loaded /\ files[call.f_name].kind = "dict" /\ ~Contiguous(files[call.f_name].rows))
        => pc = "raised"

\* C13: loading a file that choice 6 saved gives a board with the rows, the
\* live columns, the height and the bounds of the board that was saved.
C13_SaveLoadRoundTrip ==
    (Loaded /\ call.f_name \in DOMAIN saved)
        => /\ pc = "ok"
           /\ DOMAIN d = saved[call.f_name].keys
           /\ LiveCells = saved[call.f_name].cells
           /\ height = saved[call.f_name].height
           /\ min_max = saved[call.f_name].min_max

\* C15: no step changes or removes an existing file: choice 6 on a path that
\* exists writes nothing, a file is written only at a path that did not exist.
C15_NoOverwrite ==
    [][\A p \in DOMAIN files : p \in DOMAIN files' /\ files'[p] = files[p]]_vars

\* C15 witness: choice 6 was given the path of an existing file whose content
\* differs from what the save would have written.
C15_Witness ==
    /\ last = "save_board" /\ pc = "ok"
    /\ call.existed /\ call.f_name \in DOMAIN files
    /\ files[call.f_name] # Repr(Self)

\* C19: choice 5 with a generation count N >= 0 and an answer other than "y"
\* calls compute_next_generation N times, draws the board once and returns
\* to the menu without raising.
C19_FastForwardQuiet ==
    (last = "fast_forward" /\ call.num_gens >= 0 /\ call.disp # "y")
        => /\ pc = "ok"
           /\ call.computes = call.num_gens
           /\ call.redraws = 1

====
